---- MODULE Spec2Model ----
(***************************************************************************)
(* implog: import of access-log files into a dimensional MySQL log store.  *)
(*                                                                         *)
(* The model follows the newest revision of each unit that the sources     *)
(* hold: the coordinator (main, importLog) of src/unnamed/part_001, the    *)
(* MySQL store of src/unnamed/part_004 (lines 248-688) and the parser's    *)
(* result contract of src/implog.go (lines 216-481).                       *)
(*                                                                         *)
(* Granularity: one action per statement that touches state shared by      *)
(* goroutines (a cache map access under its mutex, one SQL statement, the  *)
(* atomic adds, the WaitGroup); statements on goroutine-local state are    *)
(* folded into the action that precedes them.                              *)
(***************************************************************************)
EXTENDS Integers, Sequences, FiniteSets, Bags, TLC

\* ---------------------------------------------------------------- bounds
MaxFiles == 2      \* files handed to the coordinator in a run
MaxRuns == 2       \* successive runs of the program against the same store
MaxFaults == 1     \* injected failures (stat, open, BeginTx, SQL statements)
MaxChars == 4      \* characters of a line handed to parseEntryWords by itself

\* ------------------------------------------------------ program constants
Day == 2           \* time.Now().AddDate(0, 0, -1): one day, in clock ticks

StartTime == Day + 1
\* the log files on disk; Spec imports the first MaxFiles of them,
\* DispatchSpec all of them
Files == 1 .. MaxFiles + 1

\* Strings that the store compares with each other (file names, ids) are
\* tuples; NoId is the empty string "" that a cache map yields on a miss.
NoId == << >>
FileName(f) == <<"access_log", f>>
Dims == {"ip", "uri", "referrer"}
Mutexes == {"file"} \cup Dims

\* ------------------------------------------------------------ the parser
\* A string is the sequence of its characters; "" is << >>.
\* sha1 of the raw line bytes, taken to be collision free
Sha1(raw) == <<"sha1", raw>>

\* base64.URLEncoding.EncodeToString
EncodeToString(hash) == <<"base64">> \o hash

\* strings.TrimSpace, for the one white-space character of the inputs
RECURSIVE TrimLeft(_)
TrimLeft(s) == IF s # << >> /\ Head(s) = " " THEN TrimLeft(Tail(s)) ELSE s
RECURSIVE TrimRight(_)
TrimRight(s) ==
    IF s # << >> /\ s[Len(s)] = " " THEN TrimRight(SubSeq(s, 1, Len(s) - 1))
    ELSE s
TrimSpace(s) == TrimRight(TrimLeft(s))

\* One turn of the loop of parseEntryWords (448-475) on character s. A
\* quote or a bracket closes whatever is open and appends the word, empty
\* or not; an opening one keeps the characters collected so far.
ScanChar(st, s) ==
    IF s \in {"\"", "[", "]"}
    THEN IF st.quoted
         THEN [words |-> Append(st.words, st.word), word |-> << >>,
               quoted |-> FALSE]
         ELSE [st EXCEPT !.quoted = TRUE]
    ELSE IF s = " " /\ ~st.quoted
         THEN [st EXCEPT !.words = IF Len(st.word) > 0
                                   THEN Append(@, TrimSpace(st.word)) ELSE @,
                         !.word = << >>]
         ELSE [st EXCEPT !.word = Append(@, s)]

\* the loop over the characters line[lo .. hi], left to right: the state
\* after the left half is computed (quoted is a boolean in every state)
\* before the right half is entered
RECURSIVE ScanWords(_, _, _, _)
ScanWords(line, lo, hi, st) ==
    IF lo > hi THEN st
    ELSE IF lo = hi THEN ScanChar(st, line[lo])
         ELSE LET mid == (lo + hi) \div 2
                  left == ScanWords(line, lo, mid, st)
              IN  IF left.quoted \in BOOLEAN
                  THEN ScanWords(line, mid + 1, hi, left)
                  ELSE left

\* parseEntryWords: the loop, then the flush of the last word (476-479);
\* its error is always nil
parseEntryWords(line) ==
    LET st == ScanWords(line, 1, Len(line),
                        [words |-> << >>, word |-> << >>, quoted |-> FALSE])
    IN  IF Len(st.word) > 0 THEN Append(st.words, TrimSpace(st.word))
        ELSE st.words

\* strings.Split(s, sep) for a one-character sep
RECURSIVE SplitFrom(_, _, _, _)
SplitFrom(s, sep, parts, part) ==
    IF s = << >> THEN Append(parts, part)
    ELSE IF Head(s) = sep
         THEN SplitFrom(Tail(s), sep, Append(parts, part), << >>)
         ELSE SplitFrom(Tail(s), sep, parts, Append(part, Head(s)))
Split(s, sep) == SplitFrom(s, sep, << >>, << >>)

TsGood ==
    <<"1", "0", "/", "O", "c", "t", "/", "2", "0", "2", "3", ":", "1", "3",
      ":", "5", "5", ":", "3", "6", " ", "-", "0", "7", "0", "0">>

\* The words that time.Parse accepts for the layout
\* "_2/Jan/2006:15:04:05 -0700", among the words of the inputs.
HTTPTimestamps == {TsGood}

\* parseHTTPTimestamp
parseHTTPTimestamp(word) == [err |-> word \notin HTTPTimestamps]

\* parseRequestMethod
parseRequestMethod(request) ==
    LET words == parseEntryWords(request) IN
    IF Len(words) >= 1 THEN [value |-> words[1], err |-> FALSE]
    ELSE [value |-> << >>, err |-> TRUE]

\* parseRequestURI
parseRequestURI(request) ==
    LET words == parseEntryWords(request) IN
    IF Len(words) >= 2 THEN [value |-> words[2], err |-> FALSE]
    ELSE [value |-> << >>, err |-> TRUE]

\* parseRequestParams
parseRequestParams(request) ==
    LET words == parseEntryWords(request) IN
    IF Len(words) >= 2 /\ Len(Split(words[2], "?")) > 1
    THEN [value |-> Split(words[2], "?")[2], err |-> FALSE]
    ELSE [value |-> << >>, err |-> FALSE]

\* parseRequestProtocol
parseRequestProtocol(request) ==
    LET words == parseEntryWords(request) IN
    IF Len(words) >= 3 THEN [value |-> words[3], err |-> FALSE]
    ELSE [value |-> << >>, err |-> TRUE]

Digits == <<"0", "1", "2", "3", "4", "5", "6", "7", "8", "9">>
DigitValue(c) == (CHOOSE k \in 1 .. Len(Digits) : Digits[k] = c) - 1
IsDigits(word) ==
    word # << >> /\ \A k \in 1 .. Len(word) : \E d \in 1 .. Len(Digits) : Digits[d] = word[k]
RECURSIVE ValueOf(_, _)
ValueOf(word, base) ==
    IF word = << >> THEN 0
    ELSE ValueOf(SubSeq(word, 1, Len(word) - 1), base) * base
         + DigitValue(word[Len(word)])

\* strconv.ParseInt(word, 0, 64) for the words of the inputs: an optional
\* sign and decimal digits; a leading 0 before further digits selects base
\* 8. A syntax error comes with the value 0. (The prefixes 0x, 0o, 0b, the
\* underscore and values beyond 64 bits do not occur in the inputs.)
ParseInt(word) ==
    LET signed == word # << >> /\ Head(word) \in {"+", "-"}
        digits == IF signed THEN Tail(word) ELSE word
        octal == Len(digits) > 1 /\ Head(digits) = "0"
        syntax == \/ ~IsDigits(digits)
                  \/ octal /\ \E k \in 1 .. Len(digits) : digits[k] \in {"8", "9"}
        value == ValueOf(digits, IF octal THEN 8 ELSE 10)
    IN  IF syntax THEN [value |-> 0, err |-> TRUE]
        ELSE [value |-> IF signed /\ Head(word) = "-" THEN 0 - value ELSE value,
              err |-> FALSE]

\* a nil *EntryData
Nil == [nil |-> TRUE]

\* ParseLogLine: (nil, err), or the entry and a nil error. The fields that
\* no word reaches keep Go's zero values ("" and 0); the errors of the two
\* ParseInt calls are assigned to err and never read.
ParseLogLine(line) ==
    LET words == parseEntryWords(line)
        n == Len(words)
        Word(k) == IF n >= k THEN words[k] ELSE << >>
    IN  IF \/ n >= 5 /\ parseHTTPTimestamp(words[4]).err
           \/ n >= 5 /\ parseRequestMethod(words[5]).err
           \/ n >= 5 /\ parseRequestURI(words[5]).err
           \/ n >= 5 /\ parseRequestParams(words[5]).err
           \/ n >= 5 /\ parseRequestProtocol(words[5]).err
        THEN [entry |-> Nil, err |-> TRUE]
        ELSE [entry |->
                [UUID |-> Sha1(line),
                 isParseError |-> FALSE,
                 logtype |-> "HTTP",
                 IPAddress |-> Word(1),
                 ClientIdent |-> Word(2),
                 ClientAuth |-> Word(3),
                 RequestMethod |->
                    IF n >= 5 THEN parseRequestMethod(words[5]).value ELSE << >>,
                 RequestURI |->
                    IF n >= 5 THEN parseRequestURI(words[5]).value ELSE << >>,
                 RequestParams |->
                    IF n >= 5 THEN parseRequestParams(words[5]).value ELSE << >>,
                 RequestProtocol |->
                    IF n >= 5 THEN parseRequestProtocol(words[5]).value ELSE << >>,
                 Status |-> IF n >= 6 THEN ParseInt(words[6]).value ELSE 0,
                 Size |-> IF n >= 7 THEN ParseInt(words[7]).value ELSE 0,
                 Referrer |-> Word(8),
                 ClientVersion |-> Word(9)],
              err |-> FALSE]

\* --------------------------------------------------------- the log lines
\* A line of the combined log format from its words: the timestamp in
\* brackets, the request, the referrer and the agent in quotes.
Quoted(w) == <<"\"">> \o w \o <<"\"">>
Bracketed(w) == <<"[">> \o w \o <<"]">>
RECURSIVE JoinWords(_)
JoinWords(ws) ==
    IF ws = << >> THEN << >>
    ELSE IF Len(ws) = 1 THEN ws[1]
         ELSE ws[1] \o <<" ">> \o JoinWords(Tail(ws))
LogLine(ip, ts, request, status, size, referrer, agent) ==
    <<ip, <<"-">>, <<"-">>, Bracketed(ts), Quoted(request), status, size,
      Quoted(referrer), Quoted(agent)>>

\* The lines of the files: L1 is well formed, L2 has "-" for its status, L3
\* has a timestamp that time.Parse rejects, L4 has three words.
ReqX ==
    <<"G", " ", "/", "x", " ", "H">>
L1 == JoinWords(LogLine(<<"a">>, TsGood, ReqX, <<"2">>, <<"5">>, <<"r">>, <<"c">>))
L2 == JoinWords(LogLine(<<"a">>, TsGood, ReqX, <<"-">>, <<"5">>, <<"r">>, <<"c">>))
L3 == JoinWords(LogLine(<<"b">>, <<"x">>, ReqX, <<"2">>, <<"5">>, <<"r">>, <<"c">>))
L4 == JoinWords(<<<<"a">>, <<"-">>, <<"-">>>>)

\* What each file holds; files 1 and 2 share line L1 and the URI "/x".
FileLines(f) ==
    CASE f = 1 -> <<L3, L1>>
      [] f = 2 -> <<L2, L1>>
      [] f = 3 -> <<L4, L1>>
      [] OTHER -> << >>

\* ------------------------------------------------------ bytes on disk
\* the bytes 31 and 139 that isFileContentGzip tests for
GzipMagic == <<"1F", "8B">>

\* A stand-in for deflate and its inverse: a substitution of bytes.
DeflateByte(c) == CASE c = "a" -> "A" [] c = "b" -> "B" [] c = "\n" -> "N"
                    [] OTHER -> "?"
InflateByte(c) == CASE c = "A" -> "a" [] c = "B" -> "b" [] c = "N" -> "\n"
                    [] OTHER -> "?"

\* what gzip(1) wrote: the header (magic, method), the deflated bytes and
\* the trailer
Compress(text) ==
    GzipMagic \o <<"08">> \o [k \in 1 .. Len(text) |-> DeflateByte(text[k])]
              \o <<"00">>

\* gzip.NewReader reads the header; the reader then yields the inflated
\* bytes
HeaderOK(bytes) ==
    /\ Len(bytes) >= 4
    /\ SubSeq(bytes, 1, 3) = GzipMagic \o <<"08">>
    /\ bytes[Len(bytes)] = "00"
Gunzip(bytes) == [k \in 1 .. Len(bytes) - 4 |-> InflateByte(bytes[k + 3])]

\* bufio.NewReader(f): the bytes and the read position
NewReader(bytes) == [buf |-> bytes, r |-> 0]

\* bReader.Peek(n): the next n bytes, the read position unmoved; an error
\* when fewer than n bytes are left
Peek(b, n) ==
    [bytes |-> IF Len(b.buf) - b.r < n THEN SubSeq(b.buf, b.r + 1, Len(b.buf))
               ELSE SubSeq(b.buf, b.r + 1, b.r + n),
     err |-> Len(b.buf) - b.r < n,
     reader |-> b]

\* the bytes a reader has yet to yield
Unread(b) == SubSeq(b.buf, b.r + 1, Len(b.buf))

isFileContentGzip(b) ==
    LET p == Peek(b, 2)
    IN  [gzipped |-> ~p.err /\ p.bytes = GzipMagic, err |-> p.err,
         reader |-> p.reader]

\* bufio.ScanLines: the lines end at "\n", a "\r" before it is dropped, and
\* a last line without "\n" counts if it is not empty
ScanLines(bytes) ==
    LET NL == {k \in 1 .. Len(bytes) : bytes[k] = "\n"}
        Rank(p) == Cardinality({q \in NL : q <= p})
        End(j) == IF j <= Cardinality(NL)
                  THEN CHOOSE p \in NL : Rank(p) = j
                  ELSE Len(bytes) + 1
        Start(j) == IF j = 1 THEN 1 ELSE End(j - 1) + 1
        n == Cardinality(NL) +
             (IF Len(bytes) > 0 /\ bytes[Len(bytes)] # "\n" THEN 1 ELSE 0)
        dropCR(l) == IF Len(l) > 0 /\ l[Len(l)] = "\r"
                     THEN SubSeq(l, 1, Len(l) - 1) ELSE l
    IN  [j \in 1 .. n |-> dropCR(SubSeq(bytes, Start(j), End(j) - 1))]

\* importLog 143-162: the reader, the check for compression, the scanner;
\* lines is what scanner.Scan() yields one by one
Scanner(bytes) ==
    LET gz == isFileContentGzip(NewReader(bytes))
    IN  IF gz.err THEN [err |-> "peek", lines |-> << >>]
        ELSE IF gz.gzipped
             THEN IF HeaderOK(Unread(gz.reader))
                  THEN [err |-> "nil",
                        lines |-> ScanLines(Gunzip(Unread(gz.reader)))]
                  ELSE [err |-> "gzip", lines |-> << >>]
             ELSE [err |-> "nil", lines |-> ScanLines(Unread(gz.reader))]

\* the lines of a file, each ended by "\n"
RECURSIVE JoinLines(_)
JoinLines(lines) ==
    IF lines = << >> THEN << >>
    ELSE Head(lines) \o <<"\n">> \o JoinLines(Tail(lines))

\* Short texts: empty, one byte, one line, two lines.
Texts == << << >>, <<"a">>, <<"a", "\n">>, <<"a", "\n", "b", "\n">> >>

\* a file that begins like a gzip stream and is none
Corrupt == GzipMagic \o <<"a">>

\* Further files: each text as it is, each text compressed, and Corrupt.
GzFiles == (MaxFiles + 2) .. (MaxFiles + 2 + 2 * Len(Texts))
AllFiles == Files \cup GzFiles

FileBytes(f) ==
    IF f \in Files THEN JoinLines(FileLines(f))
    ELSE LET k == f - (MaxFiles + 1)
         IN  IF k <= Len(Texts) THEN Texts[k]
             ELSE IF k <= 2 * Len(Texts) THEN Compress(Texts[k - Len(Texts)])
             ELSE Corrupt

\* what importLog finds on opening each file
Scanned == [f \in AllFiles |-> Scanner(FileBytes(f))]

\* ParseLogLine of every line of the files
AllFileLines ==
    UNION {{FileLines(f)[k] : k \in 1 .. Len(FileLines(f))} : f \in 1 .. 3}
    \cup UNION {{Scanned[f].lines[k] : k \in 1 .. Len(Scanned[f].lines)} :
                   f \in AllFiles}
Parsed == [l \in AllFileLines |-> ParseLogLine(l)]

VARIABLES
    now,            \* wall clock (time.Now())
    mtime,          \* on-disk modification time of each file
    run,            \* number of the current run of the program
    mainpc,         \* position of main
    numCPU,         \* -cpu flag
    files,          \* the file list of the run
    idx,            \* index of the next file to dispatch
    cpu,            \* main's cpu counter
    wg,             \* sync.WaitGroup counter
    tasks,          \* per importLog goroutine: position and locals
    totalCount,     \* process-wide inserted counter
    errorCount,     \* process-wide error counter
    logfilecache,   \* filename -> id
    dimcache,       \* ipcache, uricache, refercache: value -> id
    LOGFILE,        \* rows of table LOGFILE
    dimtable,       \* rows of tables LOGIP, LOGURI, LOGREFERRER
    LOGENTRY,       \* rows of table LOGENTRY (a bag: the model does not
                    \* presuppose that rows are distinct)
    mutex,          \* lfcMutex, ipcMutex, uriMutex, referMutex: the task
                    \* that holds each, 0 when it is free
    schema,         \* do the five tables exist
    autoTs,         \* server setting: does a TIMESTAMP column that an INSERT
                    \* omits get CURRENT_TIMESTAMP (TRUE) or NULL (FALSE)
    faults,         \* failures injected so far
    fullyScanned,   \* history: files scanned to the end and not touched since
    passedGate,     \* history: files that went through the gate to os.Open
                    \* and were not touched since
    parseLine,      \* the argument of a call of ParseLogLine by itself
    parseResult     \* what the call returned

vars == <<now, mtime, run, mainpc, numCPU, files, idx, cpu, wg, tasks,
          totalCount, errorCount, logfilecache, dimcache, LOGFILE, dimtable,
          mutex, LOGENTRY, schema, autoTs, faults, fullyScanned, passedGate,
          parseLine, parseResult>>

fsVars == <<now, mtime, fullyScanned, passedGate>>
mainVars == <<run, mainpc, numCPU, files, idx, cpu>>
countVars == <<totalCount, errorCount>>
cacheVars == <<logfilecache, dimcache>>
dbVars == <<LOGFILE, dimtable, LOGENTRY, schema, autoTs>>
parseVars == <<parseLine, parseResult>>

\* the strings that the files' lines yield as natural keys, and ""
Keys ==
    {<< >>} \cup
    UNION {{Parsed[l].entry.IPAddress, Parsed[l].entry.RequestURI,
            Parsed[l].entry.Referrer} : l \in {m \in AllFileLines : ~Parsed[m].err}}
EmptyCache == [k \in Keys |-> NoId]

\* mysql.NullTime
NullTime == [Valid |-> FALSE, Time |-> 0]
ValidTime(t) == [Valid |-> TRUE, Time |-> t]

IdleTask ==
    [pc |-> "idle", outcome |-> "none", info |-> 0, modified |-> 0,
     err |-> "nil", pos |-> 1, lc |-> 0,
     fileInsertCount |-> 0, fileErrorCount |-> 0,
     caller |-> "importLog", dim |-> "ip",
     rowid |-> NoId, rowmodified |-> 0,
     fileID |-> NoId, uriID |-> NoId, referrerID |-> NoId,
     opened |-> FALSE, handle |-> FALSE, tx |-> {}, parsed |-> 0, writes |-> 0,
     firstSight |-> FALSE, prevScanned |-> FALSE]

File(i) == FileName(files[i])
Running == {i \in Files : tasks[i].pc \notin {"idle", "done"}}

\* parseResult before the call
NotCalled == [called |-> FALSE]

\* ------------------------------------------------------------------ Init
Init ==
    /\ now = StartTime
    /\ \E m \in {StartTime - Day - 1, StartTime - Day, StartTime} :
          mtime = [f \in Files |-> IF f = 1 THEN m ELSE StartTime]
    /\ run = 1
    /\ mainpc = "start"
    /\ numCPU \in 1 .. MaxFiles
    /\ files = [j \in 1 .. MaxFiles |-> j]
    /\ idx = 1
    /\ cpu = 0
    /\ wg = 0
    /\ tasks = [i \in Files |-> IdleTask]
    /\ totalCount = 0
    /\ errorCount = 0
    /\ logfilecache = [f \in Files |-> NoId]
    /\ dimcache = [d \in Dims |-> EmptyCache]
    /\ mutex = [c \in Mutexes |-> 0]
    /\ LOGFILE = {}
    /\ dimtable = [d \in Dims |-> {}]
    /\ LOGENTRY = EmptyBag
    /\ schema = FALSE
    /\ autoTs \in BOOLEAN
    /\ faults = 0
    /\ fullyScanned = {}
    /\ passedGate = {}
    /\ parseLine = << >>
    /\ parseResult = NotCalled

\* A failure of the environment (file system, connection, SQL statement).
CanFail == faults < MaxFaults
Fail == faults' = faults + 1
NoFail == UNCHANGED faults


\* ------------------------------------------------- the store's statements
\* "SELECT id,modified FROM LOGFILE WHERE filename = ?"
SelectLogFile(tbl, filename) == {r \in tbl : r.filename = filename}

\* "INSERT INTO LOGFILE (id, filename, created) VALUES (?,?,?)": the column
\* modified is not in the column list and takes the server's default.
InsertLogFile(tbl, id, filename, created) ==
    tbl \cup {[id |-> id, filename |-> filename,
               modified |-> IF autoTs THEN ValidTime(now) ELSE NullTime,
               created |-> created]}

\* "UPDATE LOGFILE SET modified = ? where id = ?"
UpdateLogFile(tbl, modified, id) ==
    {IF r.id = id THEN [r EXCEPT !.modified = ValidTime(modified)] ELSE r :
        r \in tbl}

\* "SELECT id FROM LOGURI WHERE uri = ?" and its LOGIP, LOGREFERRER twins
SelectDim(tbl, value) == {r \in tbl : r.key = value}

\* variant: REPLACE INTO a table keyed by the natural key
ReplaceDim(tbl, id, value) ==
    {r \in tbl : r.key # value} \cup {[id |-> id, key |-> value]}

\* "INSERT INTO LOGURI (id, uri) VALUES (?,?)" and its twins; id is the
\* table's only key.
InsertDim(tbl, id, value) == tbl \cup {[id |-> id, key |-> value]}

\* variant: LOGENTRY without its primary key
NoPrimaryKey(tbl, id) == FALSE

\* id BINARY(16) PRIMARY KEY of LOGENTRY: the insert is rejected
\* ("Duplicate entry") when a row with the id exists.
DuplicateEntry(tbl, id) == \E r \in BagToSet(tbl) : r.id = id

\* insertQuery
InsertLogEntry(tbl, row) == tbl (+) SetToBag({row})

\* the natural key of entry in dimension d
DimValue(d, entry) ==
    CASE d = "ip" -> entry.IPAddress
      [] d = "uri" -> entry.RequestURI
      [] d = "referrer" -> entry.Referrer

\* ------------------------------------------------------------------ main
\* New, Open, Ping (part_001 38-57) and the -droptables choice
\* variant: a setup error that is logged and passed over
SetupIgnored == "loop"

\* log.Println(err); return
SetupFailed == "aborted"

MainOpen ==
    /\ UNCHANGED <<parseVars, mutex>>
    /\ mainpc = "start"
    /\ \/ /\ CanFail /\ Fail
          /\ mainpc' = SetupFailed
       \/ /\ NoFail
          /\ \E droptables \in BOOLEAN :
                mainpc' = IF droptables THEN "clear" ELSE "init"
    /\ UNCHANGED <<fsVars, run, numCPU, files, idx, cpu, wg, tasks, countVars,
                   cacheVars, dbVars>>

\* LogStore.Clear: drops the five tables
MainClear ==
    /\ UNCHANGED <<parseVars, mutex>>
    /\ mainpc = "clear"
    /\ \/ /\ CanFail /\ Fail
          /\ mainpc' = SetupFailed
          /\ UNCHANGED <<LOGFILE, dimtable, LOGENTRY, schema>>
       \/ /\ NoFail
          /\ mainpc' = "init"
          /\ LOGENTRY' = EmptyBag
          /\ LOGFILE' = {}
          /\ dimtable' = [d \in Dims |-> {}]
          /\ schema' = FALSE
    /\ UNCHANGED <<fsVars, run, numCPU, files, idx, cpu, wg, tasks, countVars,
                   cacheVars, autoTs>>

\* LogStore.Init: CREATE TABLE IF NOT EXISTS, fresh cache maps, statements
MainInit ==
    /\ UNCHANGED <<parseVars, mutex>>
    /\ mainpc = "init"
    /\ \/ /\ CanFail /\ Fail
          /\ mainpc' = SetupFailed
          /\ UNCHANGED <<cacheVars, schema>>
       \/ /\ NoFail
          /\ mainpc' = "loop"
          /\ schema' = TRUE
          /\ logfilecache' = [f \in DOMAIN logfilecache |-> NoId]
          /\ dimcache' = [d \in Dims |-> EmptyCache]
    /\ UNCHANGED <<fsVars, run, numCPU, files, idx, cpu, wg, tasks, countVars,
                   LOGFILE, dimtable, LOGENTRY, autoTs>>

\* variant: a wait that does not wait
WaitReturnsAtOnce(counter) == TRUE

\* wg.Wait() returns when the counter is zero
WaitReturns(counter) == counter = 0

\* for _, lf := range files: if cpu >= *numCPU { wg.Wait(); cpu = 0 }
MainBarrier ==
    /\ UNCHANGED <<parseVars, mutex>>
    /\ mainpc = "loop"
    /\ idx <= Len(files)
    /\ cpu >= numCPU
    /\ WaitReturns(wg)
    /\ cpu' = 0
    /\ UNCHANGED <<fsVars, run, mainpc, numCPU, files, idx, wg, tasks,
                   countVars, cacheVars, dbVars, faults>>

\* cpu++; wg.Add(1); go importLog(&wg, lf, ...)
MainGo ==
    /\ UNCHANGED <<parseVars, mutex>>
    /\ mainpc = "loop"
    /\ idx <= Len(files)
    /\ cpu < numCPU
    /\ cpu' = cpu + 1
    /\ wg' = wg + 1
    /\ tasks' = [tasks EXCEPT ![idx] =
                    [IdleTask EXCEPT !.pc = "stat",
                                     !.prevScanned = files[idx] \in fullyScanned]]
    /\ idx' = idx + 1
    /\ UNCHANGED <<fsVars, run, mainpc, numCPU, files, countVars, cacheVars,
                   dbVars, faults>>

\* the final wg.Wait() and the report of totalCount and errorCount
MainReport ==
    /\ UNCHANGED <<parseVars, mutex>>
    /\ mainpc = "loop"
    /\ idx > Len(files)
    /\ WaitReturns(wg)
    /\ mainpc' = "done"
    /\ UNCHANGED <<fsVars, run, numCPU, files, idx, cpu, wg, tasks, countVars,
                   cacheVars, dbVars, faults>>

\* ------------------------------------------------ between runs (cron job)
Ended == mainpc \in {"done", "aborted"}
Between == mainpc = "start" /\ run > 1

Tick ==
    /\ UNCHANGED <<parseVars, mutex>>
    /\ Between
    /\ now < StartTime + run - 1
    /\ now' = now + 1
    /\ UNCHANGED <<mtime, fullyScanned, passedGate, mainVars, wg, tasks, countVars,
                   cacheVars, dbVars, faults>>

\* the web server writes to a log file
Touch(f) ==
    /\ UNCHANGED <<parseVars, mutex>>
    /\ Between
    /\ \E j \in DOMAIN files : files[j] = f
    /\ mtime[f] < now
    /\ mtime' = [mtime EXCEPT ![f] = now]
    /\ fullyScanned' = fullyScanned \ {f}
    /\ passedGate' = passedGate \ {f}
    /\ UNCHANGED <<now, mainVars, wg, tasks, countVars, cacheVars, dbVars, faults>>

\* a new process: globals and the store handle start afresh, the database
\* and the files persist
NextRun ==
    /\ UNCHANGED <<parseVars, mutex>>
    /\ Ended /\ run < MaxRuns
    /\ run' = run + 1
    /\ mainpc' = "start"
    /\ idx' = 1
    /\ cpu' = 0
    /\ wg' = 0
    /\ tasks' = [i \in Files |-> IdleTask]
    /\ totalCount' = 0
    /\ errorCount' = 0
    /\ logfilecache' = [f \in Files |-> NoId]
    /\ dimcache' = [d \in Dims |-> EmptyCache]
    /\ UNCHANGED <<fsVars, numCPU, files, dbVars, faults>>


\* ------------------------------------------------------------- importLog
SetTask(i, t) == tasks' = [tasks EXCEPT ![i] = t]

\* uuid.New(): a value no earlier call has yielded. The value is named
\* after the row it is made for: the table, the row's natural key and the
\* number of rows of the table that hold the key already.
NewUUID(table, value, rows) ==
    <<"uuid", table, value, Cardinality({r \in rows : r.key = value})>>

\* variant: a return without the deferred f.Close()
NoClose(t) == t

\* defer f.Close(): registered once os.Open has succeeded
Close(t) == [t EXCEPT !.handle = FALSE]

\* variant: a return that leaves the WaitGroup as it is
ReturnWithoutDone(i, t, outcome) ==
    /\ SetTask(i, Close([t EXCEPT !.pc = "done", !.outcome = outcome]))
    /\ wg' = wg

\* a return of importLog: the deferred f.Close() and wg.Done() run
Return(i, t, outcome) ==
    /\ SetTask(i, Close([t EXCEPT !.pc = "done", !.outcome = outcome]))
    /\ wg' = wg - 1

\* info, err := os.Stat(file)
Stat(i) ==
    /\ UNCHANGED <<parseVars, mutex>>
    /\ tasks[i].pc = "stat"
    /\ LET t == tasks[i] IN
       \/ /\ CanFail /\ Fail
          /\ Return(i, t, "stat failed")
       \/ /\ NoFail
          /\ SetTask(i, [t EXCEPT !.pc = "lfCache", !.caller = "importLog",
                                  !.info = mtime[files[i]],
                                  !.firstSight =
                                      /\ SelectLogFile(LOGFILE, File(i)) = {}
                                      /\ logfilecache[files[i]] = NoId])
          /\ UNCHANGED wg
    /\ UNCHANGED <<fsVars, mainVars, countVars, cacheVars, dbVars>>

\* LookupLogFile returns (id, modified, err) to its caller: importLog keeps
\* the time and the error, WriteHTTPLogEntry keeps the id alone and goes on
\* to LookupIPAddress.
LfReturn(t, id, modified, err) ==
    IF t.caller = "importLog"
    THEN [t EXCEPT !.pc = "gate", !.modified = modified, !.err = err,
                   !.rowid = NoId, !.rowmodified = 0]
    ELSE [t EXCEPT !.pc = "dimCache", !.dim = "ip", !.fileID = id,
                   !.rowid = NoId, !.rowmodified = 0]

\* the positions at which a task goes for a cache map, and the mutex of
\* that map
CachePcs == {"lfCache", "lfCacheNew", "lfCacheUpd", "dimCache", "dimCacheW"}
MutexOf(i) ==
    IF tasks[i].pc \in {"dimCache", "dimCacheW"} THEN tasks[i].dim ELSE "file"

\* s.uriMutex.Lock() and its like: waits until the mutex is free
Lock(i) ==
    /\ tasks[i].pc \in CachePcs
    /\ mutex[MutexOf(i)] = 0
    /\ mutex' = [mutex EXCEPT ![MutexOf(i)] = i]
    /\ UNCHANGED <<parseVars, fsVars, mainVars, wg, tasks, countVars,
                   cacheVars, dbVars, faults>>

\* variant: the map is accessed whoever holds the mutex
HoldsOrNot(i, c) == TRUE

\* the access to the map comes between Lock and Unlock of its mutex
Holds(i, c) == mutex[c] = i

\* s.uriMutex.Unlock() and its like
Unlock(c) == mutex' = [mutex EXCEPT ![c] = 0]

\* LookupLogFile 535-540: the cache read under lfcMutex
LfCacheMap(i) ==
    /\ UNCHANGED parseVars
    /\ tasks[i].pc = "lfCache"
    /\ LET t == tasks[i]
           r == logfilecache[files[i]]
       IN  IF r # NoId
           THEN SetTask(i, LfReturn(t, r, t.info, "nil"))
           ELSE SetTask(i, [t EXCEPT !.pc = "lfSelect"])
    /\ UNCHANGED <<fsVars, mainVars, wg, countVars, cacheVars, dbVars, faults>>

\* Lock, the read, Unlock in one step
LfCache(i) ==
    /\ mutex["file"] = 0
    /\ LfCacheMap(i)
    /\ UNCHANGED mutex

\* the read by the task that holds the mutex, and Unlock
LfCacheHeld(i) ==
    /\ Holds(i, "file")
    /\ LfCacheMap(i)
    /\ Unlock("file")

\* variant: the update whenever the two times differ
Differs(a, b) == a # b

\* modified.After(row.modified)
After(a, b) == a > b

\* LookupLogFile 545-548, 564-574: the select, the NullTime handling and the
\* comparison of the modification times
LfSelect(i) ==
    /\ UNCHANGED <<parseVars, mutex>>
    /\ tasks[i].pc = "lfSelect"
    /\ LET t == tasks[i]
           rows == SelectLogFile(LOGFILE, File(i))
       IN  \/ /\ CanFail /\ Fail
              /\ SetTask(i, LfReturn(t, NoId, t.info, "err"))
           \/ /\ NoFail
              /\ rows = {}
              /\ SetTask(i, [t EXCEPT !.pc = "lfInsert"])
           \/ /\ NoFail
              /\ \E row \in rows :
                    LET rowmodified == IF row.modified.Valid
                                       THEN row.modified.Time
                                       ELSE now - Day
                    IN  IF After(t.info, rowmodified)
                        THEN SetTask(i, [t EXCEPT !.pc = "lfUpdate",
                                                  !.rowid = row.id,
                                                  !.rowmodified = rowmodified])
                        ELSE SetTask(i, LfReturn(t, row.id, rowmodified, "nil"))
    /\ UNCHANGED <<fsVars, mainVars, wg, countVars, cacheVars, dbVars>>

\* row.id = uuid.New().String()
NewLogFileID(i) ==
    NewUUID("file", File(i), {[key |-> r.filename] : r \in LOGFILE})

\* LookupLogFile 549-555: insert a new record
LfInsert(i) ==
    /\ UNCHANGED <<parseVars, mutex>>
    /\ tasks[i].pc = "lfInsert"
    /\ LET t == tasks[i] IN
       \/ /\ CanFail /\ Fail
          /\ SetTask(i, LfReturn(t, NoId, t.info, "err"))
          /\ UNCHANGED <<LOGFILE>>
       \/ /\ NoFail
          /\ LOGFILE' = InsertLogFile(LOGFILE, NewLogFileID(i), File(i), t.info)
          /\ SetTask(i, [t EXCEPT !.pc = "lfCacheNew",
                                  !.rowid = NewLogFileID(i)])
    /\ UNCHANGED <<fsVars, mainVars, wg, countVars, cacheVars, dimtable,
                   LOGENTRY, schema, autoTs>>

\* LookupLogFile 556-562: cache the id, return yesterday's date
LfCacheNewMap(i) ==
    /\ UNCHANGED parseVars
    /\ tasks[i].pc = "lfCacheNew"
    /\ LET t == tasks[i] IN
       /\ logfilecache' = [logfilecache EXCEPT ![files[i]] = t.rowid]
       /\ SetTask(i, LfReturn(t, t.rowid, now - Day, "nil"))
    /\ UNCHANGED <<fsVars, mainVars, wg, countVars, dimcache, dbVars, faults>>

\* Lock, the write, Unlock in one step
LfCacheNew(i) ==
    /\ mutex["file"] = 0
    /\ LfCacheNewMap(i)
    /\ UNCHANGED mutex

\* the write by the task that holds the mutex, and Unlock
LfCacheNewHeld(i) ==
    /\ Holds(i, "file")
    /\ LfCacheNewMap(i)
    /\ Unlock("file")

\* LookupLogFile 575-579: s.updateLogFile.Exec(modified, logfile)
LfUpdate(i) ==
    /\ UNCHANGED <<parseVars, mutex>>
    /\ tasks[i].pc = "lfUpdate"
    /\ LET t == tasks[i] IN
       \/ /\ CanFail /\ Fail
          /\ SetTask(i, LfReturn(t, t.rowid, t.rowmodified, "err"))
          /\ UNCHANGED LOGFILE
       \/ /\ NoFail
          /\ LOGFILE' = UpdateLogFile(LOGFILE, t.info, File(i))
          /\ SetTask(i, [t EXCEPT !.pc = "lfCacheUpd"])
    /\ UNCHANGED <<fsVars, mainVars, wg, countVars, cacheVars, dimtable,
                   LOGENTRY, schema, autoTs>>

\* LookupLogFile 580-585
LfCacheUpdMap(i) ==
    /\ UNCHANGED parseVars
    /\ tasks[i].pc = "lfCacheUpd"
    /\ LET t == tasks[i] IN
       /\ logfilecache' = [logfilecache EXCEPT ![files[i]] = t.rowid]
       /\ SetTask(i, LfReturn(t, t.rowid, t.rowmodified, "nil"))
    /\ UNCHANGED <<fsVars, mainVars, wg, countVars, dimcache, dbVars, faults>>

\* Lock, the write, Unlock in one step
LfCacheUpd(i) ==
    /\ mutex["file"] = 0
    /\ LfCacheUpdMap(i)
    /\ UNCHANGED mutex

\* the write by the task that holds the mutex, and Unlock
LfCacheUpdHeld(i) ==
    /\ Holds(i, "file")
    /\ LfCacheUpdMap(i)
    /\ Unlock("file")

\* variant: the gate without its Equal half
GateSkipsAfterOnly(modified, info) == modified > info

\* if modified.After(info.ModTime()) || modified.Equal(info.ModTime())
GateSkips(modified, info) == modified > info \/ modified = info

\* importLog 127-134: the lookup's error, then the modification-time gate
Gate(i) ==
    /\ UNCHANGED <<parseVars, mutex>>
    /\ tasks[i].pc = "gate"
    /\ LET t == tasks[i] IN
       IF t.err # "nil"
       THEN Return(i, t, "lookup failed") /\ UNCHANGED passedGate
       ELSE IF GateSkips(t.modified, t.info)
            THEN Return(i, t, "skipped") /\ UNCHANGED passedGate
            ELSE /\ SetTask(i, [t EXCEPT !.pc = "open"])
                 /\ passedGate' = passedGate \cup {files[i]}
                 /\ UNCHANGED wg
    /\ UNCHANGED <<now, mtime, fullyScanned, mainVars, countVars, cacheVars,
                   dbVars, faults>>

\* importLog 136-162: os.Open, the two-byte Peek of isFileContentGzip (an
\* error on a file shorter than two bytes), gzip.NewReader, the scanner
Open(i) ==
    /\ UNCHANGED <<parseVars, mutex>>
    /\ tasks[i].pc = "open"
    /\ LET t == tasks[i]
           o == [t EXCEPT !.opened = TRUE, !.handle = TRUE]
       IN
       \/ /\ CanFail /\ Fail
          /\ Return(i, t, "open failed")
       \/ /\ NoFail
          /\ Scanned[files[i]].err = "peek"
          /\ Return(i, o, "gzip check failed")
       \/ /\ NoFail
          /\ Scanned[files[i]].err = "gzip"
          /\ Return(i, o, "decompression failed")
       \/ /\ NoFail
          /\ Scanned[files[i]].err = "nil"
          /\ SetTask(i, [o EXCEPT !.pc = "scan"])
          /\ UNCHANGED wg
    /\ UNCHANGED <<fsVars, mainVars, countVars, cacheVars, dbVars>>

CurrentLine(i) == Scanned[files[i]].lines[tasks[i].pos]
CurrentResult(i) == Parsed[CurrentLine(i)]
CurrentEntry(i) == CurrentResult(i).entry

\* variant: every error counts, the rejected duplicate too
CountWriteEveryError(t, err) ==
    [t EXCEPT !.fileErrorCount = IF err # "nil" THEN @ + 1 ELSE @,
              !.fileInsertCount = IF err = "nil" THEN @ + 1 ELSE @,
              !.lc = @ + 1]

\* variant: fileInsertCount++ after the if, as in the revision of
\* src/implog.go 183-187
CountWriteAlways(t, err) ==
    [t EXCEPT !.fileErrorCount = IF err \notin {"nil", "Duplicate entry"}
                                 THEN @ + 1 ELSE @,
              !.fileInsertCount = @ + 1,
              !.lc = @ + 1]

\* importLog 179-188: the counters after WriteHTTPLogEntry returned err
CountWrite(t, err) ==
    [t EXCEPT !.fileErrorCount = IF err \notin {"nil", "Duplicate entry"}
                                 THEN @ + 1 ELSE @,
              !.fileInsertCount = IF err = "nil" THEN @ + 1 ELSE @,
              !.lc = @ + 1]

\* WriteHTTPLogEntry has returned err: count, and go on to the next line
WriteReturn(t, err) ==
    [CountWrite(t, err) EXCEPT !.pc = "scan", !.pos = @ + 1, !.err = err,
                               !.fileID = NoId, !.uriID = NoId,
                               !.referrerID = NoId, !.tx = {}]

\* importLog 165-178: scanner.Scan(), ParseLogLine (a parse error continues
\* with the next line), then WriteHTTPLogEntry 655-668: IsParseError,
\* BeginTx, and on to LookupLogFile
ScanLine(i) ==
    /\ UNCHANGED <<parseVars, mutex>>
    /\ tasks[i].pc = "scan"
    /\ tasks[i].pos <= Len(Scanned[files[i]].lines)
    /\ LET t == [tasks[i] EXCEPT !.parsed = @ + 1]
           w == [t EXCEPT !.writes = @ + 1]
       IN  IF CurrentResult(i).err
           THEN SetTask(i, [t EXCEPT !.pos = @ + 1]) /\ NoFail
           ELSE IF CurrentEntry(i).isParseError
                THEN SetTask(i, WriteReturn(w, "nil")) /\ NoFail
                ELSE \/ /\ CanFail /\ Fail
                        /\ SetTask(i, WriteReturn(w, "err"))
                     \/ /\ NoFail
                        /\ SetTask(i, [w EXCEPT !.pc = "lfCache",
                                                !.caller = "write"])
    /\ UNCHANGED <<fsVars, mainVars, wg, countVars, cacheVars, dbVars>>

\* a dimension lookup returns id (the empty string with an error):
\* WriteHTTPLogEntry drops LookupIPAddress's result, keeps uriID and
\* referrerID and overwrites err each time
DimReturn(t, id) ==
    CASE t.dim = "ip" ->
            [t EXCEPT !.pc = "dimCache", !.dim = "uri", !.rowid = NoId]
      [] t.dim = "uri" ->
            [t EXCEPT !.pc = "dimCache", !.dim = "referrer", !.uriID = id,
                      !.rowid = NoId]
      [] t.dim = "referrer" ->
            [t EXCEPT !.pc = "insert", !.dim = "ip", !.referrerID = id,
                      !.rowid = NoId]

\* LookupURI 506-511 (LookupIPAddress 590-595, LookupReferrer 626-631)
DimCacheMap(i) ==
    /\ UNCHANGED parseVars
    /\ tasks[i].pc = "dimCache"
    /\ LET t == tasks[i]
           r == dimcache[t.dim][DimValue(t.dim, CurrentEntry(i))]
       IN  IF r # NoId
           THEN SetTask(i, DimReturn(t, r))
           ELSE SetTask(i, [t EXCEPT !.pc = "dimSelect"])
    /\ UNCHANGED <<fsVars, mainVars, wg, countVars, cacheVars, dbVars, faults>>

\* Lock, the read, Unlock in one step
DimCache(i) ==
    /\ mutex[tasks[i].dim] = 0
    /\ DimCacheMap(i)
    /\ UNCHANGED mutex

\* the read by the task that holds the mutex, and Unlock
DimCacheHeld(i) ==
    /\ Holds(i, tasks[i].dim)
    /\ DimCacheMap(i)
    /\ Unlock(tasks[i].dim)

\* LookupURI 512-515, 527-530
DimSelect(i) ==
    /\ UNCHANGED <<parseVars, mutex>>
    /\ tasks[i].pc = "dimSelect"
    /\ LET t == tasks[i]
           rows == SelectDim(dimtable[t.dim], DimValue(t.dim, CurrentEntry(i)))
       IN  \/ /\ CanFail /\ Fail
              /\ SetTask(i, DimReturn(t, NoId))
           \/ /\ NoFail
              /\ rows = {}
              /\ SetTask(i, [t EXCEPT !.pc = "dimInsert"])
           \/ /\ NoFail
              /\ \E row \in rows : SetTask(i, DimReturn(t, row.id))
    /\ UNCHANGED <<fsVars, mainVars, wg, countVars, cacheVars, dbVars>>

\* id = uuid.New().String()
NewDimID(i) ==
    NewUUID(tasks[i].dim, DimValue(tasks[i].dim, CurrentEntry(i)),
            dimtable[tasks[i].dim])

\* LookupURI 516-521
\* variant: the insert statements prepared on, and executed in, the
\* transaction of the call
EnlistInTx(d, id) == {<<d, id>>}

\* What an insert adds to the transaction that WriteHTTPLogEntry began: the
\* statements are prepared on s.db (Init 427-485) and executed on their
\* own, so nothing.
Enlist(d, id) == {}

DimInsert(i) ==
    /\ UNCHANGED <<parseVars, mutex>>
    /\ tasks[i].pc = "dimInsert"
    /\ LET t == tasks[i] IN
       \/ /\ CanFail /\ Fail
          /\ SetTask(i, DimReturn(t, NoId))
          /\ UNCHANGED <<dimtable>>
       \/ /\ NoFail
          /\ dimtable' = [dimtable EXCEPT ![t.dim] =
                InsertDim(@, NewDimID(i), DimValue(t.dim, CurrentEntry(i)))]
          /\ SetTask(i, [t EXCEPT !.pc = "dimCacheW", !.rowid = NewDimID(i),
                                  !.tx = @ \cup Enlist(t.dim, NewDimID(i))])
    /\ UNCHANGED <<fsVars, mainVars, wg, countVars, cacheVars, LOGFILE,
                   LOGENTRY, schema, autoTs>>

\* LookupURI 522-525
DimCacheWMap(i) ==
    /\ UNCHANGED parseVars
    /\ tasks[i].pc = "dimCacheW"
    /\ LET t == tasks[i] IN
       /\ dimcache' = [dimcache EXCEPT
                          ![t.dim][DimValue(t.dim, CurrentEntry(i))] = t.rowid]
       /\ SetTask(i, DimReturn(t, t.rowid))
    /\ UNCHANGED <<fsVars, mainVars, wg, countVars, logfilecache, dbVars, faults>>

\* Lock, the write, Unlock in one step
DimCacheW(i) ==
    /\ mutex[tasks[i].dim] = 0
    /\ DimCacheWMap(i)
    /\ UNCHANGED mutex

\* the write by the task that holds the mutex, and Unlock
DimCacheWHeld(i) ==
    /\ Holds(i, tasks[i].dim)
    /\ DimCacheWMap(i)
    /\ Unlock(tasks[i].dim)

\* the row that insertLogEntry.ExecContext (678-680) writes
EntryRow(t, entry) ==
    [id |-> EncodeToString(entry.UUID), logfile_id |-> t.fileID,
     loguri_id |-> t.uriID, ipaddress |-> entry.IPAddress,
     referrer |-> t.referrerID]

\* defer tx.Rollback() (664): the rows written in the transaction go
Rollback(tbl, tx) == [d \in Dims |-> {r \in tbl[d] : <<d, r.id>> \notin tx}]

\* WriteHTTPLogEntry 678-687: the insert, its error and the rollback, or the
\* commit
InsertEntry(i) ==
    /\ UNCHANGED <<parseVars, mutex>>
    /\ tasks[i].pc = "insert"
    /\ LET t == tasks[i]
           row == EntryRow(t, CurrentEntry(i))
       IN  \/ /\ CanFail /\ Fail
              /\ SetTask(i, WriteReturn(t, "err"))
              /\ dimtable' = Rollback(dimtable, t.tx)
              /\ UNCHANGED LOGENTRY
           \/ /\ NoFail
              /\ IF DuplicateEntry(LOGENTRY, row.id)
                 THEN /\ SetTask(i, WriteReturn(t, "Duplicate entry"))
                      /\ dimtable' = Rollback(dimtable, t.tx)
                      /\ UNCHANGED LOGENTRY
                 ELSE /\ LOGENTRY' = InsertLogEntry(LOGENTRY, row)
                      /\ SetTask(i, WriteReturn(t, "nil"))
                      /\ UNCHANGED dimtable
    /\ UNCHANGED <<fsVars, mainVars, wg, countVars, cacheVars, LOGFILE,
                   schema, autoTs>>

\* variant: a store in place of the add
StoreUint64(counter, delta) == delta

\* atomic.AddUint64
AddUint64(counter, delta) == counter + delta

\* importLog 190-205: the scan has ended; fold the file's counts into the
\* totals and return
Fold(i) ==
    /\ UNCHANGED <<parseVars, mutex>>
    /\ tasks[i].pc = "scan"
    /\ tasks[i].pos > Len(Scanned[files[i]].lines)
    /\ errorCount' = AddUint64(errorCount, tasks[i].fileErrorCount)
    /\ totalCount' = AddUint64(totalCount, tasks[i].fileInsertCount)
    /\ fullyScanned' = fullyScanned \cup {files[i]}
    /\ Return(i, tasks[i], "scanned")
    /\ UNCHANGED <<now, mtime, passedGate, mainVars, cacheVars, dbVars, faults>>

\* ------------------------------------------------------------------ Next
Next ==
    \/ MainOpen
    \/ MainClear
    \/ MainInit
    \/ MainBarrier
    \/ MainGo
    \/ MainReport
    \/ Tick
    \/ \E f \in Files : Touch(f)
    \/ NextRun
    \/ \E i \in Files : Stat(i)
    \/ \E i \in Files : LfCache(i)
    \/ \E i \in Files : LfSelect(i)
    \/ \E i \in Files : LfInsert(i)
    \/ \E i \in Files : LfCacheNew(i)
    \/ \E i \in Files : LfUpdate(i)
    \/ \E i \in Files : LfCacheUpd(i)
    \/ \E i \in Files : Gate(i)
    \/ \E i \in Files : Open(i)
    \/ \E i \in Files : ScanLine(i)
    \/ \E i \in Files : DimCache(i)
    \/ \E i \in Files : DimSelect(i)
    \/ \E i \in Files : DimInsert(i)
    \/ \E i \in Files : DimCacheW(i)
    \/ \E i \in Files : InsertEntry(i)
    \/ \E i \in Files : Fold(i)

Spec == Init /\ [][Next]_vars


\* ==================================================== ParseLogLine alone
\* The words that the input lines are made of.
ExampleIP ==
    <<"1", ".", "2", ".", "3", ".", "4">>
TsBad ==
    <<"1", "0", "/", "O", "c", "t", "/", "2", "0", "2", "3">>
Method ==
    <<"G", "E", "T">>
Protocol ==
    <<"H", "T", "T", "P", "/", "1", ".", "1">>
TargetExample ==
    <<"/", "x", "?", "y", "=", "1">>
TargetPlain ==
    <<"/", "x">>
TargetTwoMarks ==
    <<"/", "x", "?", "y", "=", "1", "?", "z", "=", "2">>
Targets == {TargetExample, TargetPlain, TargetTwoMarks}
Request(target) == JoinWords(<<Method, target, Protocol>>)
ReqExample == Request(TargetExample)
ReqNoProtocol == JoinWords(<<Method, TargetPlain>>)
ReqNoURI == Method
ExampleReferrer ==
    <<"h", "t", "t", "p", ":", "/", "/", "r", "e", "f">>
ExampleAgent ==
    <<"a", "g", "e", "n", "t", "/", "1", ".", "0">>
Timestamps == {TsGood, TsBad}
Requests == {Request(target) : target \in Targets} \cup {ReqNoProtocol, ReqNoURI}
StatusWords == {<<"2", "0", "0">>, <<"-">>}
SizeWords == {<<"5", "1", "2">>, <<"-">>}

\* the spec's example line
ExampleLine ==
    JoinWords(LogLine(ExampleIP, TsGood, ReqExample, <<"2", "0", "0">>,
                      <<"5", "1", "2">>, ExampleReferrer, ExampleAgent))

\* Every line of the layout over these words, and every line cut after
\* any number of its words.
ParseInputs ==
    UNION {{JoinWords(SubSeq(LogLine(ExampleIP, ts, request, status, size,
                                     ExampleReferrer, ExampleAgent), 1, n)) :
                n \in 0 .. Len(LogLine(ExampleIP, ts, request, status, size,
                                       ExampleReferrer, ExampleAgent))} :
           <<ts, request, status, size>> \in
               Timestamps \X Requests \X StatusWords \X SizeWords}

\* a process that calls ParseLogLine on one line and does nothing else
ParseInit ==
    /\ parseLine \in ParseInputs
    /\ parseResult = NotCalled
    /\ now = StartTime
    /\ mtime = [f \in Files |-> StartTime]
    /\ run = 1
    /\ mainpc = "start"
    /\ numCPU = 1
    /\ files = [j \in Files |-> j]
    /\ idx = 1
    /\ cpu = 0
    /\ wg = 0
    /\ tasks = [i \in Files |-> IdleTask]
    /\ totalCount = 0
    /\ errorCount = 0
    /\ logfilecache = [f \in Files |-> NoId]
    /\ dimcache = [d \in Dims |-> EmptyCache]
    /\ mutex = [c \in Mutexes |-> 0]
    /\ LOGFILE = {}
    /\ dimtable = [d \in Dims |-> {}]
    /\ LOGENTRY = EmptyBag
    /\ schema = FALSE
    /\ autoTs = FALSE
    /\ faults = 0
    /\ fullyScanned = {}
    /\ passedGate = {}

\* entrydata, err := httplog.ParseLogLine(line)
CallParseLogLine ==
    /\ parseResult = NotCalled
    /\ parseResult' = ParseLogLine(parseLine)
    /\ UNCHANGED <<parseLine, fsVars, mainVars, wg, tasks, countVars,
                   cacheVars, mutex, dbVars, faults>>

ParseNext == CallParseLogLine

ParseSpec == ParseInit /\ [][ParseNext]_vars

\* ------------------------------------------------ parseEntryWords by itself
\* The characters the loop tells apart: a quote, the brackets, the space,
\* and any other character.
WordChars == {"\"", "[", "]", " ", "a"}

\* every line of up to MaxChars of these characters
WordInputs == UNION {[1 .. n -> WordChars] : n \in 0 .. MaxChars}

\* a process that calls parseEntryWords on one line and does nothing else
WordsInit ==
    /\ parseLine \in WordInputs
    /\ parseResult = NotCalled
    /\ now = StartTime
    /\ mtime = [f \in Files |-> StartTime]
    /\ run = 1
    /\ mainpc = "start"
    /\ numCPU = 1
    /\ files = [j \in Files |-> j]
    /\ idx = 1
    /\ cpu = 0
    /\ wg = 0
    /\ tasks = [i \in Files |-> IdleTask]
    /\ totalCount = 0
    /\ errorCount = 0
    /\ logfilecache = [f \in Files |-> NoId]
    /\ dimcache = [d \in Dims |-> EmptyCache]
    /\ mutex = [c \in Mutexes |-> 0]
    /\ LOGFILE = {}
    /\ dimtable = [d \in Dims |-> {}]
    /\ LOGENTRY = EmptyBag
    /\ schema = FALSE
    /\ autoTs = FALSE
    /\ faults = 0
    /\ fullyScanned = {}
    /\ passedGate = {}

\* words, err := parseEntryWords(line)
CallParseEntryWords ==
    /\ parseResult = NotCalled
    /\ parseResult' = [words |-> parseEntryWords(parseLine), err |-> FALSE]
    /\ UNCHANGED <<parseLine, fsVars, mainVars, wg, tasks, countVars,
                   cacheVars, mutex, dbVars, faults>>

WordsNext == CallParseEntryWords

WordsSpec == WordsInit /\ [][WordsNext]_vars

\* ------------------------------------------------- the dispatch by itself
\* One run over files that are all older than a day: each pipeline ends at
\* the gate, so the steps below are all the steps there are.
DispatchInit ==
    /\ now = StartTime
    /\ mtime = [f \in Files |-> StartTime - Day]
    /\ run = 1
    /\ mainpc = "start"
    /\ files = [j \in Files |-> j]
    /\ numCPU \in 1 .. Len(files)
    /\ idx = 1
    /\ cpu = 0
    /\ wg = 0
    /\ tasks = [i \in Files |-> IdleTask]
    /\ totalCount = 0
    /\ errorCount = 0
    /\ logfilecache = [f \in Files |-> NoId]
    /\ dimcache = [d \in Dims |-> EmptyCache]
    /\ mutex = [c \in Mutexes |-> 0]
    /\ LOGFILE = {}
    /\ dimtable = [d \in Dims |-> {}]
    /\ LOGENTRY = EmptyBag
    /\ schema = FALSE
    /\ autoTs \in BOOLEAN
    /\ faults = 0
    /\ fullyScanned = {}
    /\ passedGate = {}
    /\ parseLine = << >>
    /\ parseResult = NotCalled

DispatchNext ==
    \/ MainOpen
    \/ MainClear
    \/ MainInit
    \/ MainBarrier
    \/ MainGo
    \/ MainReport
    \/ \E i \in Files : Stat(i)
    \/ \E i \in Files : LfCache(i)
    \/ \E i \in Files : LfSelect(i)
    \/ \E i \in Files : LfInsert(i)
    \/ \E i \in Files : LfCacheNew(i)
    \/ \E i \in Files : Gate(i)

DispatchSpec == DispatchInit /\ [][DispatchNext]_vars

\* ------------------------------------------- one file, plain or compressed
\* One run over one of the further files.
GzipInit ==
    /\ now = StartTime
    /\ mtime = [f \in AllFiles |-> StartTime]
    /\ run = 1
    /\ mainpc = "start"
    /\ \E f \in GzFiles : files = <<f>>
    /\ numCPU = 1
    /\ idx = 1
    /\ cpu = 0
    /\ wg = 0
    /\ tasks = [i \in Files |-> IdleTask]
    /\ totalCount = 0
    /\ errorCount = 0
    /\ logfilecache = [f \in AllFiles |-> NoId]
    /\ dimcache = [d \in Dims |-> EmptyCache]
    /\ mutex = [c \in Mutexes |-> 0]
    /\ LOGFILE = {}
    /\ dimtable = [d \in Dims |-> {}]
    /\ LOGENTRY = EmptyBag
    /\ schema = FALSE
    /\ autoTs \in BOOLEAN
    /\ faults = 0
    /\ fullyScanned = {}
    /\ passedGate = {}
    /\ parseLine = << >>
    /\ parseResult = NotCalled

GzipNext ==
    \/ MainOpen
    \/ MainClear
    \/ MainInit
    \/ MainGo
    \/ MainReport
    \/ \E i \in Files : Stat(i)
    \/ \E i \in Files : LfCache(i)
    \/ \E i \in Files : LfSelect(i)
    \/ \E i \in Files : LfInsert(i)
    \/ \E i \in Files : LfCacheNew(i)
    \/ \E i \in Files : Gate(i)
    \/ \E i \in Files : Open(i)
    \/ \E i \in Files : ScanLine(i)
    \/ \E i \in Files : DimCache(i)
    \/ \E i \in Files : DimSelect(i)
    \/ \E i \in Files : DimInsert(i)
    \/ \E i \in Files : DimCacheW(i)
    \/ \E i \in Files : InsertEntry(i)
    \/ \E i \in Files : Fold(i)

GzipSpec == GzipInit /\ [][GzipNext]_vars

\* ------------------------------------------------ the cache mutexes apart
\* A run over a list of files, the first of which an earlier run has
\* recorded and the last of which is any file of its place or any of the
\* further files; Lock, the access to the map and Unlock are steps of their
\* own.
LockInit ==
    /\ now = StartTime
    /\ \E m \in {StartTime - Day, StartTime} :
          mtime = [f \in AllFiles |-> IF f = 1 THEN m ELSE StartTime]
    /\ run = MaxRuns
    /\ mainpc = "start"
    /\ numCPU \in 1 .. MaxFiles
    /\ \E f \in {MaxFiles} \cup GzFiles :
          files = [j \in 1 .. MaxFiles |-> IF j = MaxFiles THEN f ELSE j]
    /\ idx = 1
    /\ cpu = 0
    /\ wg = 0
    /\ tasks = [i \in Files |-> IdleTask]
    /\ totalCount = 0
    /\ errorCount = 0
    /\ logfilecache = [f \in AllFiles |-> NoId]
    /\ dimcache = [d \in Dims |-> EmptyCache]
    /\ mutex = [c \in Mutexes |-> 0]
    /\ autoTs = FALSE
    /\ LOGFILE = InsertLogFile({}, NewUUID("file", FileName(1), {}),
                               FileName(1), StartTime - 1)
    /\ dimtable = [d \in Dims |-> {}]
    /\ LOGENTRY = EmptyBag
    /\ schema = TRUE
    /\ faults = 0
    /\ fullyScanned = {}
    /\ passedGate = {}
    /\ parseLine = << >>
    /\ parseResult = NotCalled

LockNext ==
    \/ MainOpen
    \/ MainClear
    \/ MainInit
    \/ MainBarrier
    \/ MainGo
    \/ MainReport
    \/ \E i \in Files : Stat(i)
    \/ \E i \in Files : Lock(i)
    \/ \E i \in Files : LfCacheHeld(i)
    \/ \E i \in Files : LfSelect(i)
    \/ \E i \in Files : LfInsert(i)
    \/ \E i \in Files : LfCacheNewHeld(i)
    \/ \E i \in Files : LfUpdate(i)
    \/ \E i \in Files : LfCacheUpdHeld(i)
    \/ \E i \in Files : Gate(i)
    \/ \E i \in Files : Open(i)
    \/ \E i \in Files : ScanLine(i)
    \/ \E i \in Files : DimCacheHeld(i)
    \/ \E i \in Files : DimSelect(i)
    \/ \E i \in Files : DimInsert(i)
    \/ \E i \in Files : DimCacheWHeld(i)
    \/ \E i \in Files : InsertEntry(i)
    \/ \E i \in Files : Fold(i)

LockSpec == LockInit /\ [][LockNext]_vars

\* The same with the scheduler's promise: a step that can be taken is taken
\* in the end.
LiveSpec == LockInit /\ [][LockNext]_vars /\ WF_vars(LockNext)

\* ================================================================ claims
Dispatched == 1 .. (idx - 1)

RECURSIVE SumOver(_, _)
SumOver(S, field) ==
    IF S = {} THEN 0
    ELSE LET i == CHOOSE j \in S : TRUE
         IN  tasks[i][field] + SumOver(S \ {i}, field)

\* C1: the fact table holds at most one row per content hash, whatever the
\* interleaving of the writes and across runs.
C1_OneRowPerHash ==
    \A r \in BagToSet(LOGENTRY) :
        /\ CopiesIn(r, LOGENTRY) = 1
        /\ \A q \in BagToSet(LOGENTRY) : q.id = r.id => q = r

\* a write of a line whose hash the table holds was rejected in a later run
C1_Witness ==
    /\ run = 2
    /\ \E i \in Files :
          /\ tasks[i].err = "Duplicate entry"
          /\ BagCardinality(LOGENTRY) = 2

\* C2: there is exactly one LOGURI row per URI string, also when two tasks
\* look the same new string up concurrently.
C2_OneURIRowPerString ==
    \A r \in dimtable["uri"] : \A q \in dimtable["uri"] :
        r.key = q.key => r = q

\* C3: a file name with no LOGFILE row and no cache entry is never skipped
\* by the gate of importLog.
C3_FirstSightNeverSkipped ==
    \A i \in Files : tasks[i].firstSight => tasks[i].outcome # "skipped"

\* C4: the pipeline of a file that an earlier run scanned to the end and
\* that was not modified since parses no line and writes no entry.
C4_ScannedFileSkipped ==
    \A i \in Files :
        tasks[i].prevScanned => tasks[i].parsed = 0 /\ tasks[i].writes = 0

\* C5: when LookupLogFile finds a row whose stored time is earlier than the
\* observed time and its update returns no error, the row holds the
\* observed time.
C5_UpdatePersistsModified ==
    [][\A i \in Files :
          ( /\ tasks[i].pc = "lfUpdate"
            /\ tasks'[i].pc = "lfCacheUpd"
            /\ \E r \in SelectLogFile(LOGFILE, File(i)) :
                  r.modified.Valid /\ r.modified.Time < tasks[i].info )
          => \A r \in SelectLogFile(LOGFILE', File(i)) :
                  r.modified = ValidTime(tasks[i].info)]_vars

\* C6: at no moment are more than numCPU importLog pipelines running.
C6_AtMostNRunning == Cardinality(Running) <= numCPU

\* main waits at the barrier for a full window of running pipelines
C6_Witness ==
    /\ mainpc = "loop"
    /\ idx <= Len(files)
    /\ cpu >= numCPU
    /\ Cardinality(Running) = numCPU

\* C7: when the totals are reported every dispatched pipeline has finished
\* and the totals are the sums of the per-file counts.
C7_TotalsAreSums ==
    mainpc = "done" =>
        /\ Dispatched = DOMAIN files
        /\ \A i \in Dispatched : tasks[i].pc = "done"
        /\ totalCount = SumOver(Dispatched, "fileInsertCount")
        /\ errorCount = SumOver(Dispatched, "fileErrorCount")

\* two files contributed inserts and one an error to the reported totals
C7_Witness ==
    /\ mainpc = "done"
    /\ \A i \in DOMAIN files : tasks[i].fileInsertCount >= 1
    /\ errorCount >= 1

\* C8: with a stored time equal to or later than the on-disk time importLog
\* ends at the gate: no open, no parse, no write, fact table and counters
\* unchanged.
C8_GateSkipFrame ==
    [][\A i \in Files :
          ( /\ tasks[i].pc = "gate"
            /\ tasks[i].err = "nil"
            /\ tasks[i].modified >= tasks[i].info
            /\ tasks'[i] # tasks[i] )
          => /\ tasks'[i].pc = "done"
             /\ ~tasks'[i].opened
             /\ tasks'[i].parsed = 0
             /\ tasks'[i].writes = 0
             /\ LOGENTRY' = LOGENTRY
             /\ totalCount' = totalCount
             /\ errorCount' = errorCount]_vars

\* a pipeline ended at the gate on a stored time equal to the on-disk time
C8_Witness ==
    \E i \in Files :
        /\ tasks[i].outcome = "skipped"
        /\ tasks[i].modified = tasks[i].info

\* C9: a write rejected as a duplicate changes neither the error count nor
\* the inserted count, of the file or of the run.
C9_DuplicateNotCounted ==
    [][\A i \in Files :
          ( /\ tasks[i].pc = "insert"
            /\ tasks'[i].pc = "scan"
            /\ tasks'[i].err = "Duplicate entry" )
          => /\ tasks'[i].fileErrorCount = tasks[i].fileErrorCount
             /\ tasks'[i].fileInsertCount = tasks[i].fileInsertCount
             /\ totalCount' = totalCount
             /\ errorCount' = errorCount]_vars

\* a pipeline got a duplicate rejection and finished with no count for it
C9_Witness ==
    \E i \in Files :
        /\ tasks[i].err = "Duplicate entry"
        /\ tasks[i].outcome = "scanned"
        /\ tasks[i].fileInsertCount = 0
        /\ tasks[i].fileErrorCount = 0

\* C10: the inserted count grows by one, and only in the step in which
\* WriteHTTPLogEntry returned success; a write that returned an error
\* leaves it as it is.
C10_InsertCountOnlyOnSuccess ==
    [][\A i \in Files :
          /\ ( /\ run' = run
               /\ tasks'[i].fileInsertCount # tasks[i].fileInsertCount )
             => /\ tasks'[i].fileInsertCount = tasks[i].fileInsertCount + 1
                /\ tasks'[i].writes >= 1
                /\ tasks'[i].pos = tasks[i].pos + 1
                /\ tasks'[i].err = "nil"
          /\ ( /\ tasks'[i].pos = tasks[i].pos + 1
               /\ tasks'[i].err # "nil" )
             => tasks'[i].fileInsertCount = tasks[i].fileInsertCount]_vars

\* a write failed with an error that is no duplicate and was not counted as
\* inserted
C10_Witness ==
    \E i \in Files :
        /\ tasks[i].err = "err"
        /\ tasks[i].pc = "scan"
        /\ tasks[i].fileErrorCount = 1
        /\ tasks[i].fileInsertCount = 1

\* C11: a line for which ParseLogLine returns an error adds one to the
\* file's error count (and the next line of the file is scanned).
C11_ParseErrorCounted ==
    [][\A i \in Files :
          ( /\ tasks[i].pc = "scan"
            /\ tasks[i].pos <= Len(FileLines(files[i]))
            /\ CurrentResult(i).err
            /\ tasks'[i] # tasks[i] )
          => /\ tasks'[i].fileErrorCount = tasks[i].fileErrorCount + 1
             /\ tasks'[i].pc = "scan"
             /\ tasks'[i].pos = tasks[i].pos + 1]_vars

\* the pipelines that ended because the file could not be stat'ed or
\* opened or its compression could not be determined
Aborted ==
    {i \in Files :
        tasks[i].outcome \in {"stat failed", "open failed", "gzip check failed",
                              "decompression failed"}}

\* C12: the reported error total counts every file whose pipeline aborted
\* at stat, open or the compression check.
C12_AbortedFileCounted ==
    mainpc = "done" => errorCount >= Cardinality(Aborted)

\* the outcomes of importLog that are failures
FailedOutcomes ==
    {"stat failed", "lookup failed", "open failed", "gzip check failed",
     "decompression failed"}

\* C13: whatever the outcomes of the pipelines, the WaitGroup counts the
\* running ones alone (so a wait of main returns once they have ended), a
\* file has been started if and only if main has passed it in the list,
\* and when main reports every file of the list has run to its end.
C13_EveryFileRunsToCompletion ==
    /\ wg = Cardinality(Running)
    /\ mainpc \in {"loop", "done"} =>
          \A i \in Files : (i < idx) <=> (tasks[i].pc # "idle")
    /\ mainpc = "done" =>
          /\ idx = Len(files) + 1
          /\ \A i \in DOMAIN files : tasks[i].pc = "done"

\* with one pipeline at a time, the first file's pipeline failed and the
\* second file was scanned to its end and inserted a row
C13_Witness ==
    /\ mainpc = "done"
    /\ numCPU = 1
    /\ tasks[1].outcome \in FailedOutcomes
    /\ tasks[2].outcome = "scanned"
    /\ tasks[2].fileInsertCount >= 1

\* C14: when a dimension lookup of WriteHTTPLogEntry has failed (its id is
\* the empty string) the call returns an error and inserts no fact row.
C14_LookupFailureAborts ==
    [][\A i \in Files :
          ( /\ tasks[i].pc = "insert"
            /\ NoId \in {tasks[i].fileID, tasks[i].uriID, tasks[i].referrerID}
            /\ tasks'[i] # tasks[i] )
          => /\ tasks'[i].err # "nil"
             /\ LOGENTRY' = LOGENTRY]_vars

\* the line whose hash a fact row is keyed by
RowLine(row) == row.id[3]

\* C15: every fact row references a LOGFILE row of a file that holds the
\* row's line, the LOGURI row of the entry's request URI and the
\* LOGREFERRER row of the entry's referrer.
C15_FactReferencesDimensions ==
    \A row \in BagToSet(LOGENTRY) :
        LET entry == Parsed[RowLine(row)].entry IN
        /\ \E lf \in LOGFILE :
              /\ lf.id = row.logfile_id
              /\ \E j \in Files :
                    /\ lf.filename = FileName(j)
                    /\ \E k \in 1 .. Len(FileLines(j)) :
                          FileLines(j)[k] = RowLine(row)
        /\ \E u \in dimtable["uri"] :
              u.id = row.loguri_id /\ u.key = entry.RequestURI
        /\ \E r \in dimtable["referrer"] :
              r.id = row.referrer /\ r.key = entry.Referrer

\* C16: a line of fewer than 4 words yields a parse error: ParseLogLine
\* returns an error or an entry marked isParseError (which the store
\* never writes).
C16_ShortLineIsParseError ==
    ( /\ parseResult # NotCalled
      /\ Len(parseEntryWords(parseLine)) < 4 )
    => \/ parseResult.err
       \/ parseResult.entry.isParseError

\* a well-formed line: the layout with a timestamp of the layout, a request
\* of method, target and protocol, and decimal status and size
WellFormedLine(target) ==
    JoinWords(LogLine(ExampleIP, TsGood, Request(target), <<"2", "0", "0">>,
                      <<"5", "1", "2">>, ExampleReferrer, ExampleAgent))

\* the part of s before the first c (all of s without a c), and after it
FirstIndex(s, c) ==
    IF \E k \in 1 .. Len(s) : s[k] = c
    THEN CHOOSE k \in 1 .. Len(s) : s[k] = c /\ \A j \in 1 .. (k - 1) : s[j] # c
    ELSE Len(s) + 1
BeforeFirst(s, c) == SubSeq(s, 1, FirstIndex(s, c) - 1)
AfterFirst(s, c) == SubSeq(s, FirstIndex(s, c) + 1, Len(s))

\* C17: on a well-formed line ParseLogLine succeeds with the fields by
\* position, RequestURI the target up to its first '?' and RequestParams
\* what follows that '?'.
C17_QuerySplitAtFirstMark ==
    \A target \in Targets :
        ( /\ parseResult # NotCalled
          /\ parseLine = WellFormedLine(target) )
        => /\ ~parseResult.err
           /\ ~parseResult.entry.isParseError
           /\ parseResult.entry.IPAddress = ExampleIP
           /\ parseResult.entry.RequestMethod = Method
           /\ parseResult.entry.RequestProtocol = Protocol
           /\ parseResult.entry.Status = 200
           /\ parseResult.entry.Size = 512
           /\ parseResult.entry.Referrer = ExampleReferrer
           /\ parseResult.entry.ClientVersion = ExampleAgent
           /\ parseResult.entry.RequestURI = BeforeFirst(target, "?")
           /\ parseResult.entry.RequestParams = AfterFirst(target, "?")

\* the line has a timestamp word or a request that cannot be parsed
Unparseable(line) ==
    LET words == parseEntryWords(line) IN
    /\ Len(words) >= 5
    /\ \/ parseHTTPTimestamp(words[4]).err
       \/ parseRequestMethod(words[5]).err
       \/ parseRequestURI(words[5]).err
       \/ parseRequestProtocol(words[5]).err

\* C18: for a line whose timestamp or request cannot be parsed ParseLogLine
\* returns the error together with an entry that is marked isParseError
\* and carries the hash of the raw line.
C18_ErrorComesWithMarkedEntry ==
    ( /\ parseResult # NotCalled
      /\ Unparseable(parseLine) )
    => /\ parseResult.err
       /\ parseResult.entry # Nil
       /\ parseResult.entry.isParseError
       /\ parseResult.entry.UUID = Sha1(parseLine)

\* word k of the line is missing or no number
NoNumber(line, k) ==
    LET words == parseEntryWords(line) IN
    Len(words) < k \/ ParseInt(words[k]).err

\* C19: a missing or non-numeric status (size) word leaves Status (Size)
\* at the sentinel -1.
C19_MalformedNumberIsMinusOne ==
    ( /\ parseResult # NotCalled
      /\ ~parseResult.err )
    => /\ NoNumber(parseLine, 6) => parseResult.entry.Status = -1
       /\ NoNumber(parseLine, 7) => parseResult.entry.Size = -1

\* the lines of the files whose status or size word is present and no
\* number
NonNumericLines ==
    {l \in AllFileLines :
        LET words == parseEntryWords(l) IN
        \/ Len(words) >= 6 /\ ParseInt(words[6]).err
        \/ Len(words) >= 7 /\ ParseInt(words[7]).err}

\* C20: a line with a non-numeric status or size is a parse error of the
\* line: it is counted as an error and never handed to the store, and the
\* scan goes on.
C20_NonNumericIsLineError ==
    [][\A i \in Files :
          ( /\ tasks[i].pc = "scan"
            /\ tasks[i].pos <= Len(FileLines(files[i]))
            /\ CurrentLine(i) \in NonNumericLines
            /\ tasks'[i] # tasks[i] )
          => /\ tasks'[i].fileErrorCount = tasks[i].fileErrorCount + 1
             /\ tasks'[i].writes = tasks[i].writes
             /\ tasks'[i].pc = "scan"
             /\ tasks'[i].pos = tasks[i].pos + 1]_vars

\* the dimension whose lookup task i is in, between the cache miss and the
\* completion of the insert ("none" outside such a section)
InSection(i) ==
    CASE tasks[i].pc \in {"lfSelect", "lfInsert"} -> "file"
      [] tasks[i].pc \in {"dimSelect", "dimInsert"} -> tasks[i].dim
      [] OTHER -> "none"

\* C21: no two tasks are at the same time between the cache miss and the
\* completion of the insert of lookups on the same dimension.
C21_LookupIsCriticalSection ==
    \A i, j \in Files :
        (i # j /\ InSection(i) # "none") => InSection(i) # InSection(j)

\* C22: a dimension insert that comes after another task has created the
\* row of the same natural key creates no second row; the lookup goes on
\* with the identity of the existing row.
C22_LostRaceReturnsExisting ==
    [][\A i \in Files :
          LET existing == SelectDim(dimtable[tasks[i].dim],
                                    DimValue(tasks[i].dim, CurrentEntry(i)))
          IN  ( /\ tasks[i].pc = "dimInsert"
                /\ existing # {}
                /\ tasks'[i] # tasks[i]
                /\ faults' = faults )
              => /\ dimtable' = dimtable
                 /\ \E r \in existing : tasks'[i].rowid = r.id]_vars

\* mysql.NullTime a is no later than b (NULL is before every time)
TimeLeq(a, b) == ~a.Valid \/ (b.Valid /\ a.Time <= b.Time)

\* C23: no step lowers the modification time stored for a filename, and
\* LookupLogFile issues its update only with a time after the one it read.
C23_StoredTimeNeverDecreases ==
    [][ /\ \A r \in LOGFILE : \A s \in LOGFILE' :
              s.filename = r.filename => TimeLeq(r.modified, s.modified)
        /\ \A i \in Files :
              tasks'[i].pc = "lfUpdate"
              => tasks'[i].info > tasks'[i].rowmodified ]_vars

\* in a second run LookupLogFile has read a stored time, found the on-disk
\* time to be later and executed its update
C23_Witness ==
    /\ run = 2
    /\ \E i \in Files :
          /\ tasks[i].pc = "lfCacheUpd"
          /\ \E r \in LOGFILE : r.filename = File(i) /\ r.modified.Valid

\* C29: no step of the import path removes a fact or dimension row or
\* changes a field of a row other than a LOGFILE row's modified.
C29_ImportNeverDeletes ==
    [][ mainpc = "loop" =>
          /\ \A row \in BagToSet(LOGENTRY) :
                CopiesIn(row, LOGENTRY') >= CopiesIn(row, LOGENTRY)
          /\ \A d \in Dims : dimtable[d] \subseteq dimtable'[d]
          /\ \A r \in LOGFILE :
                \E s \in LOGFILE' : [s EXCEPT !.modified = r.modified] = r ]_vars

\* a second run has added a second row for a natural key and a second fact
\* row next to the rows of the first run
C29_Witness ==
    /\ run = 2
    /\ mainpc = "loop"
    /\ BagCardinality(LOGENTRY) >= 2
    /\ Cardinality(LOGFILE) = 2
    /\ \E d \in Dims : \E r, q \in dimtable[d] : r # q /\ r.key = q.key

\* C24: a pipeline whose file went through the gate in an earlier run, was
\* not scanned to the end and has not changed since goes through the gate
\* again.
C24_UnfinishedFilePassesAgain ==
    [][\A i \in Files :
          ( /\ tasks[i].pc = "gate"
            /\ tasks'[i].pc # "gate"
            /\ tasks[i].err = "nil"
            /\ files[i] \in passedGate \ fullyScanned )
          => tasks'[i].pc = "open"]_vars

\* C27: when Clear returns success the five tables exist and are empty.
C27_ClearRecreatesSchema ==
    [][(mainpc = "clear" /\ mainpc' = "init")
          => /\ schema'
             /\ LOGFILE' = {}
             /\ LOGENTRY' = EmptyBag
             /\ \A d \in Dims : dimtable'[d] = {}]_vars

\* C28: a failure of the store's Open, Ping, Clear or Init ends the run, and
\* a file pipeline starts only after Init has returned success.
C28_SetupErrorStartsNoPipeline ==
    [][ /\ (mainpc \in {"start", "clear", "init"} /\ faults' # faults)
              => mainpc' = "aborted"
        /\ (mainpc # "loop" /\ mainpc' = "loop")
              => (mainpc = "init" /\ faults' = faults /\ schema')
        /\ \A i \in Files :
              (tasks[i].pc = "idle" /\ tasks'[i].pc # "idle") => mainpc = "loop"
        /\ mainpc = "aborted" => \A i \in Files : tasks'[i].pc = "idle" ]_vars

\* the second run has ended at a setup error, with every pipeline unstarted
C28_Witness ==
    /\ run = 2
    /\ mainpc = "aborted"
    /\ faults = 1
    /\ idx = 1
    /\ \A i \in Files : tasks[i].pc = "idle"

OpenHandles == {i \in Files : tasks[i].handle}

\* C30: a finished pipeline holds no open file handle, so the open handles
\* are never more than the running pipelines.
C30_HandlesReleased ==
    /\ \A i \in Files : tasks[i].pc = "done" => ~tasks[i].handle
    /\ Cardinality(OpenHandles) <= Cardinality(Running)

\* one pipeline has returned after opening its file while another holds its
\* file open
C30_Witness ==
    \E i, j \in Files :
        /\ tasks[i].pc = "done" /\ tasks[i].opened
        /\ tasks[j].pc = "scan" /\ tasks[j].handle

\* C25: while fewer than numCPU pipelines run and a file of the list is yet
\* to be dispatched, the coordinator is not held at a wait.
C25_IdleSlotIsFilled ==
    ( /\ mainpc = "loop"
      /\ idx <= Len(files)
      /\ Cardinality(Running) < numCPU )
    => ~(cpu >= numCPU /\ wg > 0)

\* the bytes of file f after decompression (f itself when it is plain)
Decompressed(f) ==
    IF HeaderOK(FileBytes(f)) THEN Gunzip(FileBytes(f)) ELSE FileBytes(f)

\* the content hashes of the lines of the decompressed bytes that
\* ParseLogLine returns as entries
HashesOf(f) ==
    {EncodeToString(Parsed[l].entry.UUID) :
        l \in {m \in {ScanLines(Decompressed(f))[k] :
                        k \in 1 .. Len(ScanLines(Decompressed(f)))} :
                 ~Parsed[m].err /\ ~Parsed[m].entry.isParseError}}

\* the further files that are a text or a compressed text
TextFiles == {f \in GzFiles : f - (MaxFiles + 1) <= 2 * Len(Texts)}

\* C26: a run without failures over a file, compressed or plain, ends with
\* the fact rows of the lines of its decompressed bytes.
C26_SameRowsCompressedOrPlain ==
    (mainpc = "done" /\ faults = 0 /\ files[1] \in TextFiles)
    => {r.id : r \in BagToSet(LOGENTRY)} = HashesOf(files[1])

\* a line that is one token: open, the characters of x, close
Enclosed(open, x, close) == <<open>> \o x \o <<close>>

\* the characters of x
CharsOf(x) == {x[k] : k \in 1 .. Len(x)}

\* C31: a token opened by a quote runs to the next quote and a token opened
\* by "[" runs to the next "]": a line that is one such token, whatever
\* delimiters of the other kind and spaces it encloses, is one word.
C31_DelimitersMatch ==
    parseResult # NotCalled =>
        \A x \in WordInputs :
            /\ (parseLine = Enclosed("\"", x, "\"") /\ "\"" \notin CharsOf(x))
                  => parseResult.words = <<x>>
            /\ (parseLine = Enclosed("[", x, "]")
                  /\ CharsOf(x) \cap {"[", "]"} = {})
                  => parseResult.words = <<x>>

\* the pipeline of task i has gone through the gate in this run
PastGate(i) ==
    \/ tasks[i].pc \in {"open", "scan", "dimCache", "dimSelect", "dimInsert",
                        "dimCacheW", "insert"}
    \/ tasks[i].pc \in {"lfCache", "lfSelect", "lfInsert", "lfCacheNew",
                        "lfUpdate", "lfCacheUpd"} /\ tasks[i].caller = "write"
    \/ tasks[i].pc = "done" /\ tasks[i].outcome \in
          {"open failed", "gzip check failed", "decompression failed",
           "scanned"}

\* C32: once a pipeline is through the gate its filename is in the log-file
\* cache; the log-file lookup of WriteHTTPLogEntry returns from the cache
\* and leaves LOGFILE alone; LOGFILE holds one row per filename at most.
C32_FileCachedPastGate ==
    [][ /\ \A i \in Files :
              PastGate(i)' => logfilecache'[files'[i]] # NoId
        /\ \A i \in Files :
              ( /\ tasks[i].pc = "lfCache" /\ tasks[i].caller = "write"
                /\ tasks'[i] # tasks[i] )
              => /\ tasks'[i].pc = "dimCache"
                 /\ tasks'[i].fileID = logfilecache[files[i]]
                 /\ LOGFILE' = LOGFILE
        /\ \A r, q \in LOGFILE' : r.filename = q.filename => r = q ]_vars

\* in a second run WriteHTTPLogEntry has got the identity of a file's row,
\* which the first run created, from the cache
C32_Witness ==
    /\ run = 2
    /\ \E i \in Files :
          /\ tasks[i].pc = "dimCache" /\ tasks[i].dim = "ip"
          /\ tasks[i].fileID # NoId
          /\ tasks[i].fileID = logfilecache[files[i]]
          /\ \E r \in LOGFILE : r.filename = File(i) /\ r.id = tasks[i].fileID
          /\ ~tasks[i].firstSight

\* C33: every entry of a dimension cache, and of the log-file cache, names
\* a row of its table with that natural key and that identity.
C33_CacheEntryHasRow ==
    /\ \A d \in Dims : \A k \in Keys :
          dimcache[d][k] # NoId
          => \E r \in dimtable[d] : r.key = k /\ r.id = dimcache[d][k]
    /\ \A f \in DOMAIN logfilecache :
          logfilecache[f] # NoId
          => \E r \in LOGFILE :
                r.filename = FileName(f) /\ r.id = logfilecache[f]

\* two tasks have inserted a row for the same natural key and the cache
\* names one of the two; the log-file cache holds both files
C33_Witness ==
    /\ \E d \in Dims : \E k \in Keys :
          /\ dimcache[d][k] # NoId
          /\ Cardinality({r \in dimtable[d] : r.key = k}) = 2
    /\ \A j \in DOMAIN files : logfilecache[files[j]] # NoId

\* the mutexes that task i holds
HeldBy(i) == {c \in Mutexes : mutex[c] = i}

\* C34: a task reads or writes a cache map only while it holds the mutex of
\* that map; a task holds one mutex at most, and only at the access that
\* the mutex guards, so that no task waits for a mutex while it holds one.
C34_CacheAccessUnderMutex ==
    [][ /\ \A i \in Files :
              (tasks[i].pc \in CachePcs /\ tasks'[i] # tasks[i])
              => mutex[MutexOf(i)] = i
        /\ logfilecache' # logfilecache =>
              \E i \in Files : mutex["file"] = i /\ tasks'[i] # tasks[i]
        /\ \A d \in Dims :
              dimcache'[d] # dimcache[d] =>
                 \E i \in Files : mutex[d] = i /\ tasks'[i] # tasks[i]
        /\ \A i \in Files :
              /\ Cardinality(HeldBy(i)') <= 1
              /\ HeldBy(i)' # {} =>
                    (tasks'[i].pc \in CachePcs /\ HeldBy(i)' = {MutexOf(i)'}) ]_vars

\* one task holds the mutex of a dimension cache while another task is at
\* an access to the same cache, waiting
C34_Witness ==
    \E i, j \in Files : \E d \in Dims :
        /\ i # j
        /\ mutex[d] = i
        /\ tasks[j].pc \in {"dimCache", "dimCacheW"} /\ tasks[j].dim = d
        /\ tasks[i].pc = "dimCacheW"

\* C35: each pipeline takes its count off the WaitGroup once, on whichever
\* path it returns, and a run that has come to the dispatch of its files
\* reports its totals in the end.
C35_RunReportsInTheEnd ==
    /\ [](wg = Cardinality(Running))
    /\ (mainpc = "loop") ~> (mainpc = "done")

\* main has reported after one pipeline scanned its file to the end and the
\* other returned at the check for compression
C35_Witness ==
    /\ mainpc = "done"
    /\ wg = 0
    /\ \E i, j \in DOMAIN files :
          /\ tasks[i].outcome = "scanned"
          /\ tasks[j].outcome \in {"gzip check failed", "decompression failed"}

C37_RollbackRemovesNoRow ==
    [][\A i \in Files :
          ( /\ tasks[i].pc = "insert"
            /\ tasks'[i].pc = "scan"
            /\ tasks'[i].err # "nil" )
          => /\ dimtable' = dimtable
             /\ LOGFILE' = LOGFILE
             /\ dimcache' = dimcache
             /\ logfilecache' = logfilecache]_vars

\* the first write of a run created a row in each dimension table, its
\* insert into LOGENTRY failed, and the rows and cache entries are there
C37_Witness ==
    /\ run = 1
    /\ numCPU = 1
    /\ faults = 1
    /\ LOGENTRY = EmptyBag
    /\ tasks[1].pc = "scan"
    /\ tasks[1].writes = 1
    /\ tasks[1].err = "err"
    /\ \A d \in Dims :
          /\ dimtable[d] # {}
          /\ \A r \in dimtable[d] : dimcache[d][r.key] = r.id

====
